---- MODULE Spec2Model ----
(***************************************************************************)
(* Model of src/src/composicao_estatisticas.py: the four helper routines   *)
(* composicao_histograma_boxplot, calcular_estatisticas,                   *)
(* teste_f_variancias and grafico_residuos, called one at a time by a      *)
(* client.  Floating-point values are modelled as exact rationals extended *)
(* with the IEEE specials NaN and +/-Inf; the filesystem is the 'images'   *)
(* directory and the image files written under it.                         *)
(***************************************************************************)
EXTENDS Integers, Sequences, FiniteSets, TLC

VARIABLES pc, fn, args, loc, ret, exc, stdout, shown, fs, fsOps

vars == <<pc, fn, args, loc, ret, exc, stdout, shown, fs, fsOps>>

(***************************************************************************)
(* Bounds of the model.                                                    *)
(***************************************************************************)
\* sample values are the integers 0..MaxVal
MaxVal == 2
\* calcular_estatisticas is applied to every sequence of 1..MaxLen values
MaxLen == 4
\* grafico_residuos is applied to every sequence of 1..MaxResiduals residuals
MaxResiduals == 3

\* Sample sizes of teste_f_variancias.  1 is the degenerate size; 3 and 5
\* give even degrees of freedom (2 and 4), for which the F distribution
\* function is a rational function of F and is computed exactly.
SampleSizes == {1, 3, 5}

\* significance levels, as <<numerator, denominator>>; 1/20 is the default
Alphas == {<<1, 20>>, <<2, 5>>, <<1, 2>>}

\* file names given as nome_arquivo
FileNames == {"distribuicao.png", "salarios.png"}

\* standardized residuals, in tenths (-45 is -4.5)
ResidualValues == {-45, -30, -12, 0, 20, 30, 38}

(***************************************************************************)
(* Floating-point values: rationals n/d in lowest terms (d > 0), NaN,      *)
(* +Inf (n = 1) and -Inf (n = -1).                                         *)
(***************************************************************************)
RECURSIVE GCD(_, _)
GCD(a, b) == IF b = 0 THEN a ELSE GCD(b, a % b)

Abs(x) == IF x < 0 THEN -x ELSE x

Sign(x) == IF x < 0 THEN -1 ELSE IF x > 0 THEN 1 ELSE 0

Fin(n, d) ==
    LET g == GCD(Abs(n), Abs(d))
        s == IF d < 0 THEN -1 ELSE 1
    IN [k |-> "fin", n |-> (s * n) \div g, d |-> (s * d) \div g]

NaN == [k |-> "nan", n |-> 0, d |-> 1]

Inf(s) == [k |-> "inf", n |-> s, d |-> 1]

None == [k |-> "none", n |-> 0, d |-> 1]

\* a ZeroDivisionError in flight (Python float division; numpy raises none)
Raised == [k |-> "raise", n |-> 0, d |-> 1]

IsNaN(x) == x.k = "nan"

IsInf(x) == x.k = "inf"

IsFin(x) == x.k = "fin"

\* a < b under IEEE comparison: false when either side is NaN (finite
\* values are compared over the least common denominator)
FLt(a, b) ==
    CASE a.k = "fin" /\ b.k = "fin" ->
            a.n * (b.d \div GCD(a.d, b.d)) < b.n * (a.d \div GCD(a.d, b.d))
      [] a.k = "fin" /\ b.k = "inf" -> b.n > 0
      [] a.k = "inf" /\ b.k = "fin" -> a.n < 0
      [] a.k = "inf" /\ b.k = "inf" -> a.n < b.n
      [] OTHER -> FALSE

FGt(a, b) == FLt(b, a)

FNeg(a) ==
    CASE a.k = "fin" -> Fin(-a.n, a.d)
      [] a.k = "inf" -> Inf(-a.n)
      [] OTHER -> a

FAdd(a, b) ==
    CASE a.k = "raise" \/ b.k = "raise" -> Raised
      [] a.k = "nan" \/ b.k = "nan" -> NaN
      [] a.k = "fin" /\ b.k = "fin" ->
            LET g == GCD(a.d, b.d)
            IN Fin(a.n * (b.d \div g) + b.n * (a.d \div g), a.d * (b.d \div g))
      [] a.k = "inf" /\ b.k = "inf" -> IF a.n = b.n THEN a ELSE NaN
      [] a.k = "inf" -> a
      [] OTHER -> b

FSub(a, b) == FAdd(a, FNeg(b))

FMul(a, b) ==
    CASE a.k = "raise" \/ b.k = "raise" -> Raised
      [] a.k = "nan" \/ b.k = "nan" -> NaN
      [] a.k = "fin" /\ b.k = "fin" -> Fin(a.n * b.n, a.d * b.d)
      [] OTHER -> IF Sign(a.n) * Sign(b.n) = 0 THEN NaN
                  ELSE Inf(Sign(a.n) * Sign(b.n))

\* Division of a Python float: a zero divisor raises ZeroDivisionError.
PyFloatDiv(a, b) ==
    CASE a.k = "raise" \/ b.k = "raise" -> Raised
      [] b.k = "fin" /\ b.n = 0 -> Raised
      [] a.k = "nan" \/ b.k = "nan" -> NaN
      [] a.k = "fin" /\ b.k = "fin" -> Fin(a.n * b.d, a.d * b.n)
      [] a.k = "inf" /\ b.k = "inf" -> NaN
      [] a.k = "inf" -> Inf(a.n * Sign(b.n))
      [] OTHER -> Fin(0, 1)

\* Division of numpy.float64 values: IEEE 754, x/0 is +/-Inf and 0/0 is NaN
\* (numpy emits a RuntimeWarning and does not raise).
FDiv(a, b) ==
    CASE a.k = "raise" \/ b.k = "raise" -> Raised
      [] a.k = "nan" \/ b.k = "nan" -> NaN
      [] a.k = "fin" /\ b.k = "fin" ->
            IF b.n # 0 THEN Fin(a.n * b.d, a.d * b.n)
            ELSE IF a.n = 0 THEN NaN ELSE Inf(Sign(a.n))
      [] a.k = "inf" /\ b.k = "inf" -> NaN
      [] a.k = "inf" -> Inf(a.n * (IF b.n < 0 THEN -1 ELSE 1))
      [] OTHER -> Fin(0, 1)

\* Python's builtin min(a, b): b when b < a, otherwise a
PyMin(a, b) == IF FLt(b, a) THEN b ELSE a

\* Python's builtin max(a, b): b when b > a, otherwise a
PyMax(a, b) == IF FGt(b, a) THEN b ELSE a

(***************************************************************************)
(* Sequences of numbers.                                                   *)
(***************************************************************************)
RECURSIVE SumSeq(_)
SumSeq(s) == IF s = <<>> THEN 0 ELSE Head(s) + SumSeq(Tail(s))

RECURSIVE SumPow(_, _)
SumPow(s, e) == IF s = <<>> THEN 0 ELSE Head(s) ^ e + SumPow(Tail(s), e)

SeqsUpTo(S, n) == UNION {[1..m -> S] : m \in 1..n}

IsSorted(s) == \A i \in 1..(Len(s) - 1) : s[i] <= s[i + 1]

Values == 0..MaxVal

\* the samples given to calcular_estatisticas
StatSamples == SeqsUpTo(Values, MaxLen)

\* the samples given to teste_f_variancias: one ordering of every multiset
\* of the sizes above, and a sample whose variance is 39 times that of
\* <<0, 1, 2>> (the two-tailed p-value is then exactly 1/20)
FSamples ==
    {s \in UNION {[1..m -> Values] : m \in SampleSizes} : IsSorted(s)}
        \cup {<<0, 3, 12>>}

\* the residual vectors given to grafico_residuos
ResidualSeqs == SeqsUpTo(ResidualValues, MaxResiduals)

(***************************************************************************)
(* State.                                                                  *)
(***************************************************************************)
NoArgs == [none |-> TRUE]

Init ==
    /\ pc = "idle"
    /\ fn = "none"
    /\ args = NoArgs
    /\ loc = NoArgs
    /\ ret = None
    /\ exc = "none"
    /\ stdout = <<>>
    /\ shown = FALSE
    /\ fsOps = <<>>
    /\ fs \in [dir : BOOLEAN, files : {{}}]


(***************************************************************************)
(* composicao_histograma_boxplot(dataframe, coluna, ..., nome_arquivo,     *)
(* salvar).  desenhavel says whether the drawing code (lines 67-103) runs  *)
(* through for the dataframe and column given; it raises otherwise (a      *)
(* missing column, an empty column).                                       *)
(***************************************************************************)
Op(name, ok) == [op |-> name, ok |-> ok]

CallPlot ==
    /\ pc = "idle"
    /\ \E salvar \in BOOLEAN, nome \in FileNames, desenhavel \in BOOLEAN :
          args' = [salvar |-> salvar, nome_arquivo |-> nome,
                   desenhavel |-> desenhavel, fs0 |-> fs]
    /\ fn' = "plot"
    /\ pc' = "plot_dir"
    /\ UNCHANGED <<loc, ret, exc, stdout, shown, fs, fsOps>>

\* lines 57-58: os.path.exists is consulted only when salvar is set
PlotCheckDir ==
    /\ pc = "plot_dir"
    /\ IF args.salvar
       THEN /\ fsOps' = Append(fsOps, Op("exists", fs.dir))
            /\ pc' = IF fs.dir THEN "plot_draw" ELSE "plot_mkdir"
       ELSE /\ fsOps' = fsOps
            /\ pc' = "plot_draw"
    /\ UNCHANGED <<fn, args, loc, ret, exc, stdout, shown, fs>>

\* lines 59-64, with makedirs failing: the handler prints and the call
\* goes on to the drawing code instead of returning
PlotMakeDirsFailGoesOn ==
    /\ fsOps' = Append(fsOps, Op("makedirs", FALSE))
    /\ stdout' = Append(stdout, "Erro ao criar a pasta")
    /\ pc' = "plot_draw"
    /\ UNCHANGED <<fn, args, loc, ret, exc, shown, fs>>

\* lines 59-64, with makedirs failing: the handler prints and returns None
PlotMakeDirsFail ==
    /\ fsOps' = Append(fsOps, Op("makedirs", FALSE))
    /\ stdout' = Append(stdout, "Erro ao criar a pasta")
    /\ ret' = None
    /\ pc' = "done"
    /\ UNCHANGED <<fn, args, loc, exc, shown, fs>>

\* lines 59-64 without the try: the error of makedirs leaves the call
PlotMakeDirsNoTry ==
    /\ pc = "plot_mkdir"
    /\ \/ /\ fsOps' = Append(fsOps, Op("makedirs", TRUE))
          /\ fs' = [fs EXCEPT !.dir = TRUE]
          /\ stdout' = Append(stdout, "Pasta criada em")
          /\ pc' = "plot_draw"
          /\ UNCHANGED <<fn, args, loc, ret, exc, shown>>
       \/ /\ fsOps' = Append(fsOps, Op("makedirs", FALSE))
          /\ exc' = "OSError"
          /\ pc' = "done"
          /\ UNCHANGED <<fn, args, loc, ret, stdout, shown, fs>>

\* lines 59-64: os.makedirs creates the directory or raises (no permission,
\* a file of that name, a full disk); the outcome is the environment's
PlotMakeDirs ==
    /\ pc = "plot_mkdir"
    /\ \/ /\ fsOps' = Append(fsOps, Op("makedirs", TRUE))
          /\ fs' = [fs EXCEPT !.dir = TRUE]
          /\ stdout' = Append(stdout, "Pasta criada em")
          /\ pc' = "plot_draw"
          /\ UNCHANGED <<fn, args, loc, ret, exc, shown>>
       \/ PlotMakeDirsFail

\* lines 67-103: subplots, boxplot, histplot, reference lines, legend, title
PlotDraw ==
    /\ pc = "plot_draw"
    /\ IF args.desenhavel
       THEN /\ pc' = "plot_save"
            /\ exc' = exc
       ELSE /\ pc' = "done"
            /\ exc' = "KeyError"
    /\ UNCHANGED <<fn, args, loc, ret, stdout, shown, fs, fsOps>>

\* lines 106-112 with the handler returning instead of falling through
PlotSaveReturnsOnError ==
    /\ pc = "plot_save"
    /\ IF args.salvar
       THEN \/ /\ fs.dir
               /\ fsOps' = Append(fsOps, Op("savefig", TRUE))
               /\ fs' = [fs EXCEPT !.files = @ \cup {args.nome_arquivo}]
               /\ stdout' = Append(stdout, "Grafico salvo em")
               /\ pc' = "plot_show"
            \/ /\ fsOps' = Append(fsOps, Op("savefig", FALSE))
               /\ stdout' = Append(stdout, "Erro ao salvar o arquivo")
               /\ pc' = "done"
               /\ fs' = fs
       ELSE /\ pc' = "plot_show"
            /\ UNCHANGED <<stdout, fs, fsOps>>
    /\ UNCHANGED <<fn, args, loc, ret, exc, shown>>

\* lines 106-112: plt.savefig writes images/nome_arquivo or raises; either
\* way the call falls through to plt.show
PlotSave ==
    /\ pc = "plot_save"
    /\ IF args.salvar
       THEN \/ /\ fs.dir
               /\ fsOps' = Append(fsOps, Op("savefig", TRUE))
               /\ fs' = [fs EXCEPT !.files = @ \cup {args.nome_arquivo}]
               /\ stdout' = Append(stdout, "Grafico salvo em")
            \/ /\ fsOps' = Append(fsOps, Op("savefig", FALSE))
               /\ stdout' = Append(stdout, "Erro ao salvar o arquivo")
               /\ fs' = fs
       ELSE UNCHANGED <<stdout, fs, fsOps>>
    /\ pc' = "plot_show"
    /\ UNCHANGED <<fn, args, loc, ret, exc, shown>>

\* line 114: plt.show, then the implicit return None
PlotShow ==
    /\ pc = "plot_show"
    /\ shown' = TRUE
    /\ ret' = None
    /\ pc' = "done"
    /\ UNCHANGED <<fn, args, loc, exc, stdout, fs, fsOps>>

(***************************************************************************)
(* numpy and scipy routines used by the statistics functions.              *)
(***************************************************************************)
\* n * sum(x^2) - sum(x)^2, which is n times the sum of squared deviations
SqDev(s) == Len(s) * SumPow(s, 2) - SumSeq(s) * SumSeq(s)

\* np.var(s, ddof=1): the sum of squared deviations over n - 1; for one
\* element that is 0/0
Variance(s) == FDiv(Fin(SqDev(s), Len(s)), Fin(Len(s) - 1, 1))

RECURSIVE Binomial(_, _)
Binomial(n, k) ==
    IF k = 0 \/ k = n THEN 1 ELSE Binomial(n - 1, k - 1) + Binomial(n - 1, k)

RECURSIVE BetaTerms(_, _, _, _)
BetaTerms(j, m, p, q) ==
    IF j > m THEN 0
    ELSE Binomial(m, j) * p ^ j * (q - p) ^ (m - j) + BetaTerms(j + 1, m, p, q)

\* the regularized incomplete beta function I_z(a, b) at z = p/q for
\* integers a, b >= 1: sum over j = a..a+b-1 of C(a+b-1, j) z^j (1-z)^(a+b-1-j)
BetaInc(a, b, p, q) == Fin(BetaTerms(a, a + b - 1, p, q), q ^ (a + b - 1))

\* stats.f.cdf(F, dfn, dfd) = I_z(dfn/2, dfd/2) at z = dfn F / (dfn F + dfd),
\* for even dfn and dfd; NaN for a NaN argument and for degrees of freedom
\* that are not positive, 1 at +Inf, 0 at or below zero
FCdf(F, dfn, dfd) ==
    CASE F.k = "raise" -> Raised
      [] dfn <= 0 \/ dfd <= 0 -> NaN
      [] F.k = "nan" -> NaN
      [] F.k = "inf" -> IF F.n > 0 THEN Fin(1, 1) ELSE Fin(0, 1)
      [] F.n <= 0 -> Fin(0, 1)
      [] OTHER ->
            LET z == Fin(dfn * F.n, dfn * F.n + dfd * F.d)
            IN BetaInc(dfn \div 2, dfd \div 2, z.n, z.d)

(***************************************************************************)
(* teste_f_variancias(amostra1, amostra2, nome1, nome2, alpha).            *)
(***************************************************************************)
\* lines 192-197 with the degrees of freedom of the else branch exchanged
FStatSwappedDf(var1, var2, n1, n2) ==
    IF FGt(var1, var2)
    THEN [F |-> FDiv(var1, var2), df1 |-> n1 - 1, df2 |-> n2 - 1]
    ELSE [F |-> FDiv(var2, var1), df1 |-> n1 - 1, df2 |-> n2 - 1]

\* lines 192-197 with Python float division
FStatPyDiv(var1, var2, n1, n2) ==
    IF FGt(var1, var2)
    THEN [F |-> PyFloatDiv(var1, var2), df1 |-> n1 - 1, df2 |-> n2 - 1]
    ELSE [F |-> PyFloatDiv(var2, var1), df1 |-> n2 - 1, df2 |-> n1 - 1]

\* lines 192-197: the larger variance over the smaller, and the degrees of
\* freedom in the same order; a tie and a NaN take the else branch
FStat(var1, var2, n1, n2) ==
    IF FGt(var1, var2)
    THEN [F |-> FDiv(var1, var2), df1 |-> n1 - 1, df2 |-> n2 - 1]
    ELSE [F |-> FDiv(var2, var1), df1 |-> n2 - 1, df2 |-> n1 - 1]

\* line 201 without the min
PTwoTailedNoMin(p_one) == FMul(Fin(2, 1), p_one)

\* line 201: 2 * min(p, 1 - p)
PTwoTailed(p_one) == FMul(Fin(2, 1), PyMin(p_one, FSub(Fin(1, 1), p_one)))

\* lines 216-219 with <= for <
DecisaoLe(p_two, alpha) ==
    IF FLt(p_two, alpha) \/ p_two = alpha
    THEN "Rejeitamos H0" ELSE "Nao rejeitamos H0"

\* lines 216-219: the decision line printed
Decisao(p_two, alpha) ==
    IF FLt(p_two, alpha) THEN "Rejeitamos H0" ELSE "Nao rejeitamos H0"

\* lines 188-223: the values computed by one call
TesteF(amostra1, amostra2, alpha) ==
    LET var1 == Variance(amostra1)
        var2 == Variance(amostra2)
        st == FStat(var1, var2, Len(amostra1), Len(amostra2))
        p_one == FSub(Fin(1, 1), FCdf(st.F, st.df1, st.df2))
        p_two == PTwoTailed(p_one)
    IN [var1 |-> var1, var2 |-> var2, F |-> st.F, df1 |-> st.df1,
        df2 |-> st.df2, p_value_one_tailed |-> p_one,
        p_value_two_tailed |-> p_two,
        decisao |-> Decisao(p_two, Fin(alpha[1], alpha[2]))]

\* lines 177-185: the header and the hypotheses
FHeader == <<"=", "TESTE F PARA IGUALDADE DE VARIANCIAS", "=", "H0 H1">>

\* lines 204-221: the results block, the decision and the closing banner
FReport(decisao) ==
    <<"=", "RESULTADOS DO TESTE F", "=", "Variancia 1", "Variancia 2",
      "Estatistica F", "Graus de liberdade", "-", "p-valor (bicaudal)", "-",
      decisao, "=">>

CallFTest ==
    /\ pc = "idle"
    /\ \E a1 \in FSamples, a2 \in FSamples, alpha \in Alphas :
          args' = [amostra1 |-> a1, amostra2 |-> a2, alpha |-> alpha]
    /\ fn' = "ftest"
    /\ pc' = "ftest"
    /\ stdout' = FHeader
    /\ UNCHANGED <<loc, ret, exc, shown, fs, fsOps>>

\* lines 188-223; an arithmetic error would leave the call before any of
\* the results is printed
FTestBody ==
    /\ pc = "ftest"
    /\ LET r == TesteF(args.amostra1, args.amostra2, args.alpha)
       IN /\ loc' = r
          /\ IF r.F.k = "raise"
             THEN /\ exc' = "ZeroDivisionError"
                  /\ UNCHANGED <<ret, stdout>>
             ELSE /\ exc' = exc
                  /\ stdout' = stdout \o FReport(r.decisao)
                  /\ ret' = r.p_value_two_tailed
    /\ pc' = "done"
    /\ UNCHANGED <<fn, args, shown, fs, fsOps>>

(***************************************************************************)
(* calcular_estatisticas(amostra).                                         *)
(***************************************************************************)
Sorted(s) == SortSeq(s, LAMBDA a, b : a < b)

Count(s, v) == Cardinality({i \in 1..Len(s) : s[i] = v})

RECURSIVE Dedup(_)
\* the distinct values of a sorted sequence, in order
Dedup(s) ==
    IF Len(s) <= 1 THEN s
    ELSE IF s[1] = s[2] THEN Dedup(Tail(s))
    ELSE <<s[1]>> \o Dedup(Tail(s))

\* np.unique(a, return_counts=True): the sorted distinct values and the
\* number of occurrences of each
Unique(s) ==
    LET vals == Dedup(Sorted(s))
    IN [vals |-> vals, cnts |-> [i \in 1..Len(vals) |-> Count(s, vals[i])]]

\* an index of a largest entry, the last one
ArgMaxLast(c) ==
    CHOOSE i \in 1..Len(c) :
        /\ \A j \in 1..Len(c) : c[j] <= c[i]
        /\ \A j \in (i + 1)..Len(c) : c[j] < c[i]

\* ndarray.argmax(): the first index of a largest entry
ArgMax(c) ==
    CHOOSE i \in 1..Len(c) :
        /\ \A j \in 1..Len(c) : c[j] <= c[i]
        /\ \A j \in 1..(i - 1) : c[j] < c[i]

\* scipy.stats.mode(a, keepdims=True) of a non-empty one-dimensional sample:
\* the value at the argmax of the counts of np.unique, as arrays of length 1
Mode(s) ==
    LET u == Unique(s)
        i == ArgMax(u.cnts)
    IN [mode |-> <<u.vals[i]>>, count |-> <<u.cnts[i]>>]

\* line 165: the first entry of the mode array, NaN for an empty one
Moda(moda_result) ==
    IF Len(moda_result.mode) > 0 THEN Fin(moda_result.mode[1], 1) ELSE NaN

\* np.mean
Mean(s) == Fin(SumSeq(s), Len(s))

\* np.percentile(s, q) for q in {25, 50, 75}, linear interpolation between
\* the closest ranks: the virtual index is (n - 1) q / 100
Percentile(s, q) ==
    LET a == Sorted(s)
        pos == (Len(s) - 1) * (q \div 25)
        lo == pos \div 4
        hi == IF lo + 1 < Len(s) THEN lo + 1 ELSE lo
    IN Fin(4 * a[lo + 1] + (pos % 4) * (a[hi + 1] - a[lo + 1]), 4)

\* np.median: the middle element, or the mean of the two middle elements
Median(s) ==
    LET a == Sorted(s)
        n == Len(s)
    IN IF n % 2 = 1 THEN Fin(a[(n + 1) \div 2], 1)
       ELSE Fin(a[n \div 2] + a[n \div 2 + 1], 2)

\* sgn * sqrt(x) for a rational x >= 0, kept symbolic: k = "sqrt" stands for
\* the real number sign(n) * sqrt(|n| / d)
SignedRoot(sgn, x) ==
    CASE x.k = "fin" /\ (x.n = 0 \/ sgn = 0) -> Fin(0, 1)
      [] x.k = "fin" -> [k |-> "sqrt", n |-> sgn * x.n, d |-> x.d]
      [] OTHER -> x

\* np.std(s, ddof=1): the square root of np.var(s, ddof=1)
StdDev(s) == SignedRoot(1, Variance(s))

\* sum of (n x_i - sum(x))^e: n^e times the sum of the e-th powers of the
\* deviations from the mean
DevPow(s, e) == SumPow([i \in 1..Len(s) |-> Len(s) * s[i] - SumSeq(s)], e)

\* scipy.stats.skew: m3 / m2^1.5 with the biased central moments, NaN when
\* m2 is zero.  m3^2 / m2^3 = n (sum d^3)^2 / (sum d^2)^3 for d = n x - sum(x)
Skew(s) ==
    IF DevPow(s, 2) = 0 THEN NaN
    ELSE SignedRoot(Sign(DevPow(s, 3)),
                    Fin(Len(s) * DevPow(s, 3) * DevPow(s, 3), DevPow(s, 2) ^ 3))

\* scipy.stats.kurtosis(fisher=False): m4 / m2^2, NaN when m2 is zero
Kurtosis(s) ==
    IF DevPow(s, 2) = 0 THEN NaN
    ELSE Fin(Len(s) * DevPow(s, 4), DevPow(s, 2) ^ 2)

\* lines 161-174: the dictionary returned
Estatisticas(amostra) ==
    LET moda_result == Mode(amostra)
    IN [Media |-> Mean(amostra),
        Mediana |-> Median(amostra),
        Moda |-> Moda(moda_result),
        Variancia |-> Variance(amostra),
        DesvioPadrao |-> StdDev(amostra),
        Assimetria |-> Skew(amostra),
        Curtose |-> Kurtosis(amostra),
        Q1 |-> Percentile(amostra, 25),
        Q2 |-> Percentile(amostra, 50),
        Q3 |-> Percentile(amostra, 75)]

CallStats ==
    /\ pc = "idle"
    /\ \E s \in StatSamples : args' = [amostra |-> s]
    /\ fn' = "stats"
    /\ pc' = "stats"
    /\ UNCHANGED <<loc, ret, exc, stdout, shown, fs, fsOps>>

StatsBody ==
    /\ pc = "stats"
    /\ LET r == Estatisticas(args.amostra)
       IN IF \E key \in DOMAIN r : r[key].k = "raise"
          THEN /\ exc' = "ZeroDivisionError"
               /\ ret' = ret
          ELSE /\ exc' = exc
               /\ ret' = r
    /\ pc' = "done"
    /\ UNCHANGED <<fn, args, loc, stdout, shown, fs, fsOps>>

(***************************************************************************)
(* grafico_residuos(resultado): resultado.resid_pearson is the sequence of *)
(* residuals, given in tenths.                                             *)
(***************************************************************************)
RECURSIVE MinOf(_)
\* Python's min over a sequence
MinOf(s) ==
    IF Len(s) = 1 THEN s[1] ELSE PyMin(MinOf(SubSeq(s, 1, Len(s) - 1)), s[Len(s)])

RECURSIVE MaxOf(_)
\* Python's max over a sequence
MaxOf(s) ==
    IF Len(s) = 1 THEN s[1] ELSE PyMax(MaxOf(SubSeq(s, 1, Len(s) - 1)), s[Len(s)])

\* lines 246-247 without the factor 1.1
YLimitsNoMargin(residuos) ==
    [ymin |-> PyMin(MinOf(residuos), Fin(-3, 1)),
     ymax |-> PyMax(MaxOf(residuos), Fin(3, 1))]

\* lines 246-247: the y-axis limits
YLimits(residuos) ==
    [ymin |-> FMul(PyMin(MinOf(residuos), Fin(-3, 1)), Fin(11, 10)),
     ymax |-> FMul(PyMax(MaxOf(residuos), Fin(3, 1)), Fin(11, 10))]

\* lines 251-253: the reference lines
RefLines == <<Fin(0, 1), Fin(2, 1), Fin(-2, 1)>>

CallResid ==
    /\ pc = "idle"
    /\ \E r \in ResidualSeqs :
          args' = [residuos |-> [i \in 1..Len(r) |-> Fin(r[i], 10)]]
    /\ fn' = "resid"
    /\ pc' = "resid"
    /\ UNCHANGED <<loc, ret, exc, stdout, shown, fs, fsOps>>

\* lines 239-259
ResidBody ==
    /\ pc = "resid"
    /\ loc' = [indices |-> [i \in 1..Len(args.residuos) |-> i - 1],
               ylim |-> YLimits(args.residuos),
               axhline |-> RefLines]
    /\ shown' = TRUE
    /\ ret' = None
    /\ pc' = "done"
    /\ UNCHANGED <<fn, args, exc, stdout, fs, fsOps>>

(***************************************************************************)
(* The client takes the result (or the exception) and is free to call      *)
(* again; the filesystem is what persists from one call to the next.       *)
(***************************************************************************)
Return ==
    /\ pc = "done"
    /\ pc' = "idle"
    /\ fn' = "none"
    /\ args' = NoArgs
    /\ loc' = NoArgs
    /\ ret' = None
    /\ exc' = "none"
    /\ stdout' = <<>>
    /\ shown' = FALSE
    /\ fsOps' = <<>>
    /\ fs' = fs

Next ==
    \/ CallPlot
    \/ PlotCheckDir
    \/ PlotMakeDirs
    \/ PlotDraw
    \/ PlotSave
    \/ PlotShow
    \/ CallFTest
    \/ FTestBody
    \/ CallStats
    \/ StatsBody
    \/ CallResid
    \/ ResidBody
    \/ Return

Spec == Init /\ [][Next]_vars

(***************************************************************************)
(* Properties.                                                             *)
(***************************************************************************)
Failed(name) == \E i \in 1..Len(fsOps) : fsOps[i] = Op(name, FALSE)

Succeeded(name) == \E i \in 1..Len(fsOps) : fsOps[i] = Op(name, TRUE)

Printed(line) == \E i \in 1..Len(stdout) : stdout[i] = line

PlotDone == pc = "done" /\ fn = "plot"

C2_PersistenceFailureCaught ==
    fn = "plot"
        => /\ Failed("makedirs") => (exc = "none" /\ Printed("Erro ao criar a pasta"))
           /\ Failed("savefig") => (exc = "none" /\ Printed("Erro ao salvar o arquivo"))
           /\ (pc = "done" /\ (Failed("makedirs") \/ Failed("savefig")))
                 => ret = None

C2_Witness ==
    PlotDone /\ Failed("makedirs") /\ exc = "none" /\ Printed("Erro ao criar a pasta")

FTestDone == pc = "done" /\ fn = "ftest"

Positive(x) == x.k = "fin" /\ x.n > 0

PositiveVariances ==
    Positive(Variance(args.amostra1)) /\ Positive(Variance(args.amostra2))

\* C3: for samples with positive variances, teste_f_variancias(A, B) returns
\* the two-tailed p-value that teste_f_variancias(B, A) returns.
C3_SymmetricUnderSwap ==
    (FTestDone /\ PositiveVariances)
        => ret = TesteF(args.amostra2, args.amostra1, args.alpha).p_value_two_tailed

C3_Witness ==
    /\ FTestDone
    /\ PositiveVariances
    /\ Variance(args.amostra1) = Variance(args.amostra2)
    /\ Len(args.amostra1) # Len(args.amostra2)
    /\ ret.k = "fin"

\* C4: for samples with positive variances, F is the larger variance over
\* the smaller, F >= 1, df1 is n - 1 of the sample with the larger variance
\* and df2 is n - 1 of the other sample.
C4_FStatisticOrdering ==
    (FTestDone /\ PositiveVariances)
        => LET v1 == Variance(args.amostra1)
               v2 == Variance(args.amostra2)
               n1 == Len(args.amostra1)
               n2 == Len(args.amostra2)
               big == IF v1.n * v2.d >= v2.n * v1.d THEN v1 ELSE v2
               small == IF v1.n * v2.d >= v2.n * v1.d THEN v2 ELSE v1
           IN /\ loc.F.k = "fin"
              /\ loc.F.n * small.n * big.d = big.n * small.d * loc.F.d
              /\ loc.F.n >= loc.F.d
              /\ v1.n * v2.d > v2.n * v1.d
                    => (loc.df1 = n1 - 1 /\ loc.df2 = n2 - 1)
              /\ v1.n * v2.d < v2.n * v1.d
                    => (loc.df1 = n2 - 1 /\ loc.df2 = n1 - 1)
              /\ v1 = v2
                    => <<loc.df1, loc.df2>> \in {<<n1 - 1, n2 - 1>>, <<n2 - 1, n1 - 1>>}

C4_Witness ==
    /\ FTestDone
    /\ PositiveVariances
    /\ FLt(Variance(args.amostra1), Variance(args.amostra2))
    /\ Len(args.amostra1) # Len(args.amostra2)
    /\ loc.df1 = Len(args.amostra2) - 1

\* n/d < a[1]/a[2] for a finite value q = n/d >= 0 and a level a, by
\* integer division: n * a[2] < a[1] * d  iff  n * a[2] <= a[1] * d - 1
Below(q, a) == q.n <= (a[1] * q.d - 1) \div a[2]

DecisionLines == {i \in 1..Len(stdout) : stdout[i] \in {"Rejeitamos H0", "Nao rejeitamos H0"}}

\* C5: the two-tailed p-value is 2 * min(p_one, 1 - p_one); 'Rejeitamos H0'
\* is printed if and only if it is below alpha, 'Nao rejeitamos H0'
\* otherwise (also at equality); one decision line is printed per call, and
\* the value returned is that p-value.
C5_TwoTailedAndDecision ==
    FTestDone
        => LET p == loc.p_value_one_tailed
               q == loc.p_value_two_tailed
               a == args.alpha
           IN /\ p.k = "fin"
                    => IF 2 * p.n <= p.d
                       THEN q = Fin(2 * p.n, p.d)
                       ELSE q = Fin(2 * (p.d - p.n), p.d)
              /\ p.k = "nan" => q.k = "nan"
              /\ Printed("Rejeitamos H0") <=> (q.k = "fin" /\ Below(q, a))
              /\ Printed("Nao rejeitamos H0") <=> ~(q.k = "fin" /\ Below(q, a))
              /\ Cardinality(DecisionLines) = 1
              /\ ret = q

C5_Witness ==
    /\ FTestDone
    /\ ret = Fin(args.alpha[1], args.alpha[2])
    /\ args.alpha = <<1, 20>>
    /\ Printed("Nao rejeitamos H0")

ZeroVariance(s) == Len(s) >= 2 /\ Variance(s) = Fin(0, 1)

\* C6: teste_f_variancias with a zero-variance or single-element sample, and
\* calcular_estatisticas with a single-element sample, return without an
\* exception; the undefined quantities come out as NaN or Inf (F is Inf for
\* one zero variance and NaN otherwise, the variance and the standard
\* deviation of one element are NaN).
C6_DegenerateInputReturns ==
    /\ (FTestDone /\ \E s \in {args.amostra1, args.amostra2} :
                        Len(s) = 1 \/ ZeroVariance(s))
          => /\ exc = "none"
             /\ ret = loc.p_value_two_tailed
             /\ loc.F.k \in {"nan", "inf"}
             /\ Len(args.amostra1) = 1 => loc.var1.k = "nan"
             /\ Len(args.amostra2) = 1 => loc.var2.k = "nan"
             /\ loc.F.k = "nan" => ret.k = "nan"
             /\ loc.F.k = "inf" => ret = Fin(0, 1)
    /\ (pc = "done" /\ fn = "stats" /\ Len(args.amostra) = 1)
          => /\ exc = "none"
             /\ ret.Variancia.k = "nan"
             /\ ret.DesvioPadrao.k = "nan"
             /\ ret.Media = Fin(args.amostra[1], 1)

C6_Witness ==
    /\ FTestDone
    /\ ZeroVariance(args.amostra1)
    /\ Positive(Variance(args.amostra2))
    /\ loc.F = Inf(1)
    /\ exc = "none"

StatsDone == pc = "done" /\ fn = "stats"

SampleValues == {args.amostra[i] : i \in 1..Len(args.amostra)}

C8_ModaNaNWithoutRepetition ==
    (StatsDone /\ Cardinality(SampleValues) = Len(args.amostra))
        => ret.Moda.k = "nan"

ResidDone == pc = "done" /\ fn = "resid"

Residuals == {args.residuos[i] : i \in 1..Len(args.residuos)}

\* C9: the y-axis limits are (min(-3, min residual) * 1.1,
\* max(3, max residual) * 1.1); ymin <= -3.3, ymax >= 3.3, every residual
\* and the reference lines at 0, 2 and -2 lie within the limits.
C9_YLimitsEnvelope ==
    ResidDone
        => LET lo == CHOOSE x \in Residuals \cup {Fin(-3, 1)} :
                        \A y \in Residuals \cup {Fin(-3, 1)} : x.n * y.d <= y.n * x.d
               hi == CHOOSE x \in Residuals \cup {Fin(3, 1)} :
                        \A y \in Residuals \cup {Fin(3, 1)} : x.n * y.d >= y.n * x.d
               ymin == loc.ylim.ymin
               ymax == loc.ylim.ymax
           IN /\ ymin.k = "fin" /\ ymax.k = "fin"
              /\ ymin.n * 10 * lo.d = 11 * lo.n * ymin.d
              /\ ymax.n * 10 * hi.d = 11 * hi.n * ymax.d
              /\ 10 * ymin.n <= -33 * ymin.d
              /\ 10 * ymax.n >= 33 * ymax.d
              /\ \A r \in Residuals \cup {Fin(0, 1), Fin(2, 1), Fin(-2, 1)} :
                    /\ ymin.n * r.d <= r.n * ymin.d
                    /\ r.n * ymax.d <= ymax.n * r.d
              /\ loc.axhline = <<Fin(0, 1), Fin(2, 1), Fin(-2, 1)>>

C9_Witness ==
    /\ ResidDone
    /\ \E r \in Residuals : FLt(r, Fin(-3, 1))
    /\ \A r \in Residuals : FLt(r, Fin(3, 1))
    /\ loc.ylim.ymax = Fin(33, 10)
    /\ FLt(loc.ylim.ymin, Fin(-33, 10))

\* C10: with salvar=False the call makes no filesystem call and leaves the
\* filesystem as it found it; os.makedirs is called only right after
\* os.path.exists found no directory; plt.savefig is called only after the
\* directory was found or was created; an existing directory stays, and the
\* only file written is images/nome_arquivo.
C10_FilesystemOnlyOnPersistencePath ==
    fn = "plot"
        => /\ ~args.salvar => (fsOps = <<>> /\ fs = args.fs0)
           /\ \A i \in 1..Len(fsOps) :
                 /\ fsOps[i].op = "makedirs"
                       => (i > 1 /\ fsOps[i - 1] = Op("exists", FALSE) /\ ~args.fs0.dir)
                 /\ fsOps[i].op = "savefig"
                       => \E j \in 1..(i - 1) :
                             fsOps[j] \in {Op("exists", TRUE), Op("makedirs", TRUE)}
           /\ args.fs0.dir => fs.dir
           /\ fs.dir # args.fs0.dir => Succeeded("makedirs")
           /\ fs.files \subseteq args.fs0.files \cup {args.nome_arquivo}
           /\ fs.files # args.fs0.files => Succeeded("savefig")

C10_Witness ==
    /\ PlotDone
    /\ args.salvar
    /\ ~args.fs0.dir
    /\ fsOps = <<Op("exists", FALSE), Op("makedirs", TRUE), Op("savefig", TRUE)>>
    /\ args.nome_arquivo \in fs.files

====
